---- MODULE Spec2Model ----
(***************************************************************************)
(* Model of the 3DEP lidar COG example notebook                            *)
(* (datasets/3dep-lidar/3dep-lidar-cog-example.ipynb).                     *)
(*                                                                         *)
(* The notebook reads one raster per collection into the shared name ds,   *)
(* applies a per-dataset transform (np.putmask clamp, np.where mask, or    *)
(* nothing), builds one colormap from interval/colour pairs and displays   *)
(* the rasters.  Floating point values are modelled as exact rationals     *)
(* plus the special values nan, +inf and -inf that numpy produces.         *)
(***************************************************************************)
EXTENDS Integers, Sequences, FiniteSets

VARIABLES
    heap,       \* array objects: reference -> cell values (NoArray when free)
    ds,         \* the notebook name ds: a reference into heap, 0 when unbound
    inRef,      \* reference a caller keeps to the array a transform was given
    before,     \* values the transform's input array held when it was called
    hist,       \* transforms applied to ds since it was read, in order
    pc,         \* execution count of the next cell of a top-to-bottom run
    asset,      \* collection and values of the COG most recently fetched
    shown,      \* collection and values most recently handed to imshow
    pairs,      \* the colormap cell's list of (interval, colour) pairs
    nodes,      \* node positions computed by the colormap cell
    colors,     \* colours scaled to [0, 1] by the colormap cell
    cmap,       \* "none", "built", or the exception the colormap cell raised
    query       \* the last scalar looked up in cmap, and what came back

vars == <<heap, ds, inRef, before, hist, pc, asset, shown,
          pairs, nodes, colors, cmap, query>>

bucketVars == <<heap, ds, inRef, before, hist>>
cmapVars   == <<pairs, nodes, colors, cmap, query>>
bookVars   == <<pc, asset, shown>>

(***************************************************************************)
(* Bounds of the model.                                                    *)
(***************************************************************************)
RasterLen == 2      \* cells of a raster
MaxApply  == 2      \* transforms applied in a row to one raster
MaxPairs  == 3      \* interval/colour pairs handed to the colormap cell
MaxLive   == 3      \* array objects alive at once

(***************************************************************************)
(* Literals of the notebook.                                               *)
(***************************************************************************)
LowCut     == 1     \* np.putmask(ds, ds < 1, 0)
LowValue   == 0
HighCut    == 7     \* np.putmask(ds, ds >= 7, 7)
HighValue  == 7
ChannelMax == 255   \* np.asarray(c) / 255
LutSize    == 256   \* from_list(...) is called without N: 256 lookup entries

(***************************************************************************)
(* Floating point values: exact rationals n/d in lowest terms with d > 0,  *)
(* and numpy's nan, inf and -inf.                                          *)
(***************************************************************************)
Abs(x) == IF x < 0 THEN -x ELSE x

RECURSIVE Gcd(_, _)
Gcd(a, b) == IF b = 0 THEN a ELSE Gcd(b, a % b)

Rat(n, d) ==
    LET g == Gcd(Abs(n), Abs(d))
        s == IF d < 0 THEN -1 ELSE 1
    IN  [k |-> "num", n |-> (s * n) \div g, d |-> (s * d) \div g]

Num(n)  == Rat(n, 1)
NaN     == [k |-> "nan",  n |-> 0, d |-> 1]
PosInf  == [k |-> "inf",  n |-> 1, d |-> 1]
NegInf  == [k |-> "ninf", n |-> -1, d |-> 1]
Zero    == Num(0)
One     == Num(1)

IsNum(a) == a.k = "num"
IsNaN(a) == a.k = "nan"

\* IEEE comparisons: every comparison with nan is false.
FLt(a, b) ==
    /\ ~IsNaN(a) /\ ~IsNaN(b)
    /\ \/ IsNum(a) /\ IsNum(b) /\ a.n * b.d < b.n * a.d
       \/ a.k = "ninf" /\ b.k # "ninf"
       \/ b.k = "inf" /\ a.k # "inf"
FEq(a, b) == ~IsNaN(a) /\ ~IsNaN(b) /\ a = b
FGt(a, b) == FLt(b, a)
FGe(a, b) == FGt(a, b) \/ FEq(a, b)
FLe(a, b) == FLt(a, b) \/ FEq(a, b)

\* IEEE arithmetic: nan propagates, inf - inf, 0 * inf and inf / inf are nan.
Sign(a) ==
    IF a.k = "inf" THEN 1
    ELSE IF a.k = "ninf" THEN -1
    ELSE IF a.n > 0 THEN 1 ELSE IF a.n < 0 THEN -1 ELSE 0
SignedInf(s) == IF s > 0 THEN PosInf ELSE NegInf
FNeg(a) ==
    IF IsNaN(a) THEN NaN
    ELSE IF IsNum(a) THEN Rat(-a.n, a.d)
    ELSE SignedInf(-Sign(a))
FAdd(a, b) ==
    IF IsNaN(a) \/ IsNaN(b) THEN NaN
    ELSE IF IsNum(a) /\ IsNum(b) THEN Rat(a.n * b.d + b.n * a.d, a.d * b.d)
    ELSE IF IsNum(a) THEN b
    ELSE IF IsNum(b) THEN a
    ELSE IF a = b THEN a ELSE NaN
FSub(a, b) == FAdd(a, FNeg(b))
FMul(a, b) ==
    IF IsNaN(a) \/ IsNaN(b) THEN NaN
    ELSE IF IsNum(a) /\ IsNum(b) THEN Rat(a.n * b.n, a.d * b.d)
    ELSE IF Sign(a) * Sign(b) = 0 THEN NaN
    ELSE SignedInf(Sign(a) * Sign(b))
FAbs(a) ==
    IF IsNaN(a) THEN NaN
    ELSE IF IsNum(a) THEN Rat(Abs(a.n), a.d)
    ELSE PosInf
\* numpy true division: x/0 is inf, -inf or nan (with a RuntimeWarning), never
\* an exception.
FDiv(a, b) ==
    IF IsNaN(a) \/ IsNaN(b) THEN NaN
    ELSE IF IsNum(a) /\ IsNum(b)
         THEN IF b.n # 0 THEN Rat(a.n * b.d, a.d * b.n)
              ELSE IF a.n = 0 THEN NaN ELSE SignedInf(Sign(a))
    ELSE IF IsNum(a) THEN Zero
    ELSE IF IsNum(b) THEN SignedInf(IF Sign(b) < 0 THEN -Sign(a) ELSE Sign(a))
    ELSE NaN

(***************************************************************************)
(* Rasters and the array heap.                                             *)
(***************************************************************************)
NoArray == <<>>
Cells   == 1..RasterLen
Refs    == 1..MaxLive

\* Sample values a COG cell can hold.
CellValues ==
    { Num(-5), Num(-1), Zero, Rat(1, 1000), Rat(9, 10), One, Num(3), Num(5),
      Rat(69, 10), Num(7), Num(50), PosInf, NegInf, NaN }

Rasters == [Cells -> CellValues]

\* Sample values of the COGs a whole run of the notebook fetches.
BookValues == { Num(-1), Zero, Rat(9, 10), Num(5), Num(50), PosInf }
BookRasters == [Cells -> BookValues]

EmptyHeap == [r \in Refs |-> NoArray]

\* A new array object takes a free slot.
Alloc(h) == CHOOSE r \in Refs : h[r] = NoArray /\ \A q \in Refs : h[q] = NoArray => r <= q

\* Reference counting: an array no name refers to any more is freed.
Collect(h, roots) == [r \in Refs |-> IF r \in roots THEN h[r] ELSE NoArray]

(***************************************************************************)
(* The per-dataset transforms.                                             *)
(***************************************************************************)
\* Variant: the low cut-off taken inclusively (ds <= 1).
PutmaskLowInclusive(a) ==
    [i \in DOMAIN a |-> IF FLe(a[i], Num(LowCut)) THEN Num(LowValue) ELSE a[i]]

\* np.putmask(ds, ds < 1, 0): the new contents of the array ds.
PutmaskLow(a) ==
    [i \in DOMAIN a |-> IF FLt(a[i], Num(LowCut)) THEN Num(LowValue) ELSE a[i]]

\* Variant: the high replacement mistyped as 0.7.
PutmaskHighTypo(a) ==
    [i \in DOMAIN a |-> IF FGe(a[i], Num(HighCut)) THEN Rat(HighValue, 10) ELSE a[i]]

\* np.putmask(ds, ds >= 7, 7): the new contents of the array ds.
PutmaskHigh(a) ==
    [i \in DOMAIN a |-> IF FGe(a[i], Num(HighCut)) THEN Num(HighValue) ELSE a[i]]

\* The two putmask statements of the returns cell, in order.
ClampLowHigh(a) == PutmaskHigh(PutmaskLow(a))

\* Variant: zero kept (ds >= 0).
WhereNonNegative(a) ==
    [i \in DOMAIN a |-> IF FGe(a[i], Zero) THEN a[i] ELSE NaN]

\* np.where(ds > 0, ds, np.nan): the contents of the array it returns.
WherePositive(a) ==
    [i \in DOMAIN a |-> IF FGt(a[i], Zero) THEN a[i] ELSE NaN]

(***************************************************************************)
(* The colormap cell.                                                      *)
(***************************************************************************)
\* The pairs literal of the colormap cell and its colours.
HagPairs ==
    << << <<-900, 1>>, <<0, 0, 0, 0>> >>,
       << <<1, 2>>,    <<205, 224, 241, 255>> >>,
       << <<2, 3>>,    <<175, 209, 231, 255>> >>,
       << <<3, 4>>,    <<137, 190, 220, 255>> >>,
       << <<4, 5>>,    <<96, 166, 210, 255>> >>,
       << <<5, 6>>,    <<34, 114, 181, 255>> >>,
       << <<6, 7>>,    <<10, 84, 158, 255>> >>,
       << <<7, 100>>,  <<8, 48, 107, 255>> >> >>

\* Sample inputs for the cell: intervals (low, high) with low < high, colours.
BoundVals == {-2, -1, 1, 2, 4}
Intervals == { <<-2, -1>>, <<-2, 1>>, <<1, 2>>, <<2, 4>> }
Palette   == { <<0, 0, 0, 0>>, <<205, 224, 241, 255>> }
PairLists == UNION { [1..n -> Intervals \X Palette] : n \in 0..MaxPairs }

\* Sample scalars looked up in the colormap.
QueryValues == { NegInf, Num(-1), Zero, Rat(1, 2), One, Num(2), Num(4), PosInf, NaN }

Channels == 1..4

\* Variant: element 0 of each interval.
ExtractBoundsLower(p) == [i \in 1..Len(p) |-> Num(p[i][1][1])]

\* [x[1] for x in intervals]: element 1 (counting from 0) of each interval.
ExtractBounds(p) == [i \in 1..Len(p) |-> Num(p[i][1][2])]

\* nodes.min() and nodes.max() of a non-empty array of finite values.
NodesMin(b) == CHOOSE m \in {b[i] : i \in 1..Len(b)} : \A i \in 1..Len(b) : FLe(m, b[i])
NodesMax(b) == CHOOSE m \in {b[i] : i \in 1..Len(b)} : \A i \in 1..Len(b) : FGe(m, b[i])

\* nodes -= np.abs(nodes.min())
ShiftNodes(b) ==
    LET m == FAbs(NodesMin(b))
    IN  [i \in 1..Len(b) |-> FSub(b[i], m)]

\* nodes /= nodes.max()
ScaleNodes(b) ==
    LET m == NodesMax(b)
    IN  [i \in 1..Len(b) |-> FDiv(b[i], m)]

\* The node positions the cell computes from the pairs.
NodesOf(p) ==
    LET raw     == ExtractBounds(p)
        shifted == ShiftNodes(raw)
    IN  ScaleNodes(shifted)

\* colors = [np.asarray(c) / 255 for c in colors]
ScaleColors(p) ==
    [i \in 1..Len(p) |-> [c \in Channels |-> Rat(p[i][2][c], ChannelMax)]]

(***************************************************************************)
(* matplotlib's LinearSegmentedColormap as the notebook uses it: from_list *)
(* stores the (node, colour) points; the lookup table is made on the first *)
(* call, which is where the node positions are validated.                  *)
(***************************************************************************)
\* The lookup table can be made: x starts at 0, ends at 1 and never decreases.
LutValid(x) ==
    /\ Len(x) >= 1
    /\ FEq(x[1], Zero)
    /\ FEq(x[Len(x)], One)
    /\ \A i \in 1..(Len(x) - 1) : ~FLt(FSub(x[i + 1], x[i]), Zero)

\* np.searchsorted(x, v): how many elements of the sorted x are below v.
Searchsorted(x, v) == Cardinality({j \in 1..Len(x) : FLt(x[j], v)})

Clip01(v) == IF FLt(v, Zero) THEN Zero ELSE IF FGt(v, One) THEN One ELSE v

\* Entry i (0 .. LutSize-1) of the lookup table of one channel y over nodes x.
LutEntry(x, y, i) ==
    IF i = 0 THEN Clip01(y[1])
    ELSE IF i = LutSize - 1 THEN Clip01(y[Len(y)])
    ELSE LET xs   == [j \in 1..Len(x) |-> FMul(x[j], Num(LutSize - 1))]
             ind  == Searchsorted(xs, Num(i))
             dist == FDiv(FSub(Num(i), xs[ind]), FSub(xs[ind + 1], xs[ind]))
         IN  Clip01(FAdd(FMul(dist, FSub(y[ind + 1], y[ind])), y[ind]))

\* Index into the lookup table for a float x: x is taken to lie in [0, 1].
\* -1 stands for the "bad" entry (nan), which is transparent black.
LutIndex(x) ==
    IF IsNaN(x) THEN -1
    ELSE LET xa == FMul(x, Num(LutSize))
         IN  IF FEq(xa, Num(LutSize)) THEN LutSize - 1
             ELSE IF FLt(xa, Zero) THEN 0
             ELSE IF FGe(xa, Num(LutSize)) THEN LutSize - 1
             ELSE xa.n \div xa.d

\* cmap(x) for one float x, given the stored nodes nd and colours cl.
CmapCall(nd, cl, x) ==
    IF ~LutValid(nd) THEN [x |-> x, status |-> "ValueError", rgba |-> <<>>]
    ELSE LET i == LutIndex(x)
         IN  [x |-> x, status |-> "ok",
              rgba |-> [c \in Channels |->
                          IF i = -1 THEN Zero
                          ELSE LutEntry(nd, [j \in 1..Len(cl) |-> cl[j][c]], i)]]

(***************************************************************************)
(* Transforms as operations on the array bound to ds.                      *)
(***************************************************************************)
NoPair == [coll |-> "none", values |-> NoArray]
NoQuery == [x |-> NaN, status |-> "none", rgba |-> <<>>]

\* ds = rasterio.open(href).read().squeeze(): a new array object is bound to ds.
ReadRaster(r) ==
    /\ ds = 0
    /\ LET a == Alloc(heap)
       IN  /\ heap' = [heap EXCEPT ![a] = r]
           /\ ds' = a
    /\ UNCHANGED <<inRef, before, hist>>
    /\ UNCHANGED <<bookVars, cmapVars>>

\* The returns cell's clamp: both putmask calls write into the array ds names.
ClampStep ==
    /\ ds # 0
    /\ Len(hist) < MaxApply
    /\ inRef' = ds
    /\ before' = heap[ds]
    /\ heap' = Collect([heap EXCEPT ![ds] = ClampLowHigh(heap[ds])], {ds})
    /\ ds' = ds
    /\ hist' = Append(hist, "clamp")
    /\ UNCHANGED <<bookVars, cmapVars>>

\* Variant: the mask written into the array ds names, as putmask would.
MaskStepInPlace ==
    /\ ds # 0
    /\ Len(hist) < MaxApply
    /\ inRef' = ds
    /\ before' = heap[ds]
    /\ heap' = Collect([heap EXCEPT ![ds] = WherePositive(heap[ds])], {ds})
    /\ ds' = ds
    /\ hist' = Append(hist, "mask")
    /\ UNCHANGED <<bookVars, cmapVars>>

\* ds = np.where(ds > 0, ds, np.nan): np.where returns a new array, ds is rebound.
MaskStep ==
    /\ ds # 0
    /\ Len(hist) < MaxApply
    /\ inRef' = ds
    /\ before' = heap[ds]
    /\ LET h == Collect(heap, {ds})
           a == Alloc(h)
       IN  /\ heap' = [h EXCEPT ![a] = WherePositive(heap[ds])]
           /\ ds' = a
    /\ hist' = Append(hist, "mask")
    /\ UNCHANGED <<bookVars, cmapVars>>

\* The intensity and height-above-ground rasters go to display as they were read.
IdentityStep ==
    /\ ds # 0
    /\ Len(hist) < MaxApply
    /\ inRef' = ds
    /\ before' = heap[ds]
    /\ heap' = Collect(heap, {ds})
    /\ ds' = ds
    /\ hist' = Append(hist, "identity")
    /\ UNCHANGED <<bookVars, cmapVars>>

(***************************************************************************)
(* The colormap cell and a lookup, as operations.                          *)
(***************************************************************************)
\* Cell 4: zip(*pairs) of an empty list has nothing to unpack (ValueError);
\* otherwise nodes, colors and cmap are assigned.  Nothing is validated here.
CellColormap ==
    /\ pc = 4
    /\ IF Len(pairs) = 0
       THEN /\ cmap' = "ValueError"
            /\ UNCHANGED <<nodes, colors>>
       ELSE /\ nodes' = NodesOf(pairs)
            /\ colors' = ScaleColors(pairs)
            /\ cmap' = "built"
    /\ pc' = 5
    /\ UNCHANGED <<pairs, query, asset, shown, bucketVars>>

\* cmap(x) for a scalar x, as the display cell does for every cell of ds.
QueryColormap(x) ==
    /\ pc = 5
    /\ ds = 0
    /\ cmap = "built"
    /\ query.status = "none"
    /\ query' = CmapCall(nodes, colors, x)
    /\ UNCHANGED <<pairs, nodes, colors, cmap, bookVars, bucketVars>>

(***************************************************************************)
(* The cells of the notebook, run once each from top to bottom.  pc is the *)
(* execution count of the next cell (3 .. 12; 13 when the run is over).    *)
(* The contents of a COG are drawn when the cell fetches it.               *)
(***************************************************************************)
\* ds = rasterio.open(items[c].assets["data"].href).read().squeeze():
\* the heap once the new array holds r and ds has been rebound to it.
FetchRef == Alloc(heap)
FetchHeap(r) == Collect([heap EXCEPT ![FetchRef] = r], {FetchRef})

\* Cell 3: the height-above-ground raster is read.
CellHagRead ==
    /\ pc = 3
    /\ \E r \in BookRasters :
         /\ heap' = FetchHeap(r)
         /\ ds' = FetchRef
         /\ asset' = [coll |-> "3dep-lidar-hag", values |-> r]
    /\ pc' = 4
    /\ UNCHANGED <<shown, inRef, before, hist, cmapVars>>

\* Cell 5: ax.imshow(cmap(ds), cmap=cmap): every cell of ds is looked up as it is.
CellHagShow ==
    /\ pc = 5
    /\ ds # 0
    /\ cmap = "built"
    /\ IF LutValid(nodes)
       THEN shown' = [coll |-> "3dep-lidar-hag",
                      values |-> [i \in DOMAIN heap[ds] |->
                                     CmapCall(nodes, colors, heap[ds][i]).rgba]]
       ELSE UNCHANGED shown
    /\ pc' = 6
    /\ UNCHANGED <<asset, bucketVars, cmapVars>>

\* Cell 6: the intensity raster is read and shown unchanged.
CellIntensity ==
    /\ pc = 6
    /\ \E r \in BookRasters :
         /\ heap' = FetchHeap(r)
         /\ ds' = FetchRef
         /\ asset' = [coll |-> "3dep-lidar-intensity", values |-> r]
         /\ shown' = [coll |-> "3dep-lidar-intensity", values |-> r]
    /\ pc' = 7
    /\ UNCHANGED <<inRef, before, hist, cmapVars>>

\* Cell 7: the returns raster is read, clamped in place and shown.
CellReturns ==
    /\ pc = 7
    /\ \E r \in BookRasters :
         LET h == [FetchHeap(r) EXCEPT ![FetchRef] = ClampLowHigh(@)]
         IN  /\ heap' = h
             /\ ds' = FetchRef
             /\ asset' = [coll |-> "3dep-lidar-returns", values |-> r]
             /\ shown' = [coll |-> "3dep-lidar-returns", values |-> h[FetchRef]]
    /\ pc' = 8
    /\ UNCHANGED <<inRef, before, hist, cmapVars>>

\* Variant: ds is rebound to np.where of the array it already names; the
\* raster the cell fetched is left aside.
MaskCellStale(n, c) ==
    /\ pc = n
    /\ ds # 0
    /\ \E r \in BookRasters :
         LET b == Alloc(heap)
             h == Collect([heap EXCEPT ![b] = WherePositive(heap[ds])], {b})
         IN  /\ heap' = h
             /\ ds' = b
             /\ asset' = [coll |-> c, values |-> r]
             /\ shown' = [coll |-> c, values |-> h[b]]
    /\ pc' = n + 1
    /\ UNCHANGED <<inRef, before, hist, cmapVars>>

\* Cells 8 to 12: the raster of collection c is read, ds is rebound to the
\* array np.where returns, and that array is shown.
MaskCell(n, c) ==
    /\ pc = n
    /\ \E r \in BookRasters :
         LET h1 == FetchHeap(r)
             b  == Alloc(h1)
             h2 == Collect([h1 EXCEPT ![b] = WherePositive(h1[FetchRef])], {b})
         IN  /\ heap' = h2
             /\ ds' = b
             /\ asset' = [coll |-> c, values |-> r]
             /\ shown' = [coll |-> c, values |-> h2[b]]
    /\ pc' = n + 1
    /\ UNCHANGED <<inRef, before, hist, cmapVars>>

CellClassification == MaskCell(8, "3dep-lidar-classification")
CellDsm            == MaskCell(9, "3dep-lidar-dsm")
CellDtm            == MaskCell(10, "3dep-lidar-dtm")
CellDtmNative      == MaskCell(11, "3dep-lidar-dtm-native")
CellPointSourceId  == MaskCell(12, "3dep-lidar-pointsourceid")

Init ==
    /\ heap = EmptyHeap
    /\ ds = 0
    /\ inRef = 0
    /\ before = NoArray
    /\ hist = <<>>
    /\ pc = 0
    /\ asset = NoPair
    /\ shown = NoPair
    /\ pairs = <<>>
    /\ nodes = <<>>
    /\ colors = <<>>
    /\ cmap = "none"
    /\ query = NoQuery

Next ==
    \/ \E r \in Rasters : ReadRaster(r)
    \/ ClampStep
    \/ MaskStep
    \/ IdentityStep

Spec == Init /\ [][Next]_vars

InitCmap ==
    /\ heap = EmptyHeap
    /\ ds = 0
    /\ inRef = 0
    /\ before = NoArray
    /\ hist = <<>>
    /\ pc = 4
    /\ asset = NoPair
    /\ shown = NoPair
    /\ pairs \in PairLists
    /\ nodes = <<>>
    /\ colors = <<>>
    /\ cmap = "none"
    /\ query = NoQuery

NextCmap ==
    \/ CellColormap
    \/ \E x \in QueryValues : QueryColormap(x)

SpecCmap == InitCmap /\ [][NextCmap]_vars

InitNotebook ==
    /\ heap = EmptyHeap
    /\ ds = 0
    /\ inRef = 0
    /\ before = NoArray
    /\ hist = <<>>
    /\ pc = 3
    /\ asset = NoPair
    /\ shown = NoPair
    /\ pairs = HagPairs
    /\ nodes = <<>>
    /\ colors = <<>>
    /\ cmap = "none"
    /\ query = NoQuery

NextNotebook ==
    \/ CellHagRead
    \/ CellColormap
    \/ CellHagShow
    \/ CellIntensity
    \/ CellReturns
    \/ CellClassification
    \/ CellDsm
    \/ CellDtm
    \/ CellDtmNative
    \/ CellPointSourceId

SpecNotebook == InitNotebook /\ [][NextNotebook]_vars

(***************************************************************************)
(* Properties.  The rules below restate the specification's wording; they  *)
(* are compared with what the operations above leave in the state.         *)
(***************************************************************************)
ClampRule(v) == IF FLt(v, Num(1)) THEN Num(0) ELSE IF FGe(v, Num(7)) THEN Num(7) ELSE v
MaskRule(v)  == IF FLe(v, Num(0)) THEN NaN ELSE v
Last(s)      == s[Len(s)]

ClampTable ==
    { <<Num(-5), Num(0)>>, <<Num(0), Num(0)>>, <<Rat(9, 10), Num(0)>>,
      <<Num(1), Num(1)>>, <<Num(3), Num(3)>>, <<Rat(69, 10), Rat(69, 10)>>,
      <<Num(7), Num(7)>>, <<Num(50), Num(7)>> }

MaskTable ==
    { <<Num(-1), NaN>>, <<Num(0), NaN>>, <<Rat(1, 1000), Rat(1, 1000)>>,
      <<Num(5), Num(5)>> }

\* C1: after the clamp with cut-offs 1 and 7, every cell independently holds 0
\* if it was below 1, 7 if it was 7 or more, and its old value if it was in
\* [1, 7); in particular -5, 0, 0.9, 1, 3, 6.9, 7, 50 give 0, 0, 0, 1, 3, 6.9, 7, 7.
C1_ClampCells ==
    hist = <<"clamp">> =>
        \A i \in DOMAIN before :
            LET v == before[i]
                w == heap[ds][i]
            IN  /\ FLt(v, Num(1)) => w = Num(0)
                /\ FGe(v, Num(7)) => w = Num(7)
                /\ (FGe(v, Num(1)) /\ FLt(v, Num(7))) => w = v
                /\ \A t \in ClampTable : v = t[1] => w = t[2]

C1_Witness ==
    /\ hist = <<"clamp">>
    /\ \E i, j \in DOMAIN before :
         /\ before[i] = Rat(9, 10) /\ heap[ds][i] = Num(0)
         /\ before[j] = Num(50) /\ heap[ds][j] = Num(7)

\* C2: after the non-positive mask, every cell independently holds nan if it
\* was 0 or less and its old value if it was positive; -1, 0, 0.001, 5 give
\* nan, nan, 0.001, 5; the result has the shape of the input.
C2_MaskCells ==
    hist = <<"mask">> =>
        /\ DOMAIN heap[ds] = DOMAIN before
        /\ \A i \in DOMAIN before :
             LET v == before[i]
                 w == heap[ds][i]
             IN  /\ FLe(v, Num(0)) => w = NaN
                 /\ FGt(v, Num(0)) => w = v
                 /\ \A t \in MaskTable : v = t[1] => w = t[2]

C2_Witness ==
    /\ hist = <<"mask">>
    /\ \E i, j \in DOMAIN before :
         /\ before[i] = Num(0) /\ heap[ds][i] = NaN
         /\ before[j] = Rat(1, 1000) /\ heap[ds][j] = Rat(1, 1000)

\* C8: applying a policy a second time changes nothing (cells that are already
\* 0, 7 or nan stay as they are), and the identity policy returns its input.
C8_Idempotent ==
    /\ (Len(hist) >= 2 /\ hist[Len(hist)] = hist[Len(hist) - 1]) => heap[ds] = before
    /\ (hist # <<>> /\ Last(hist) = "identity") => heap[ds] = before

C8_Witness ==
    /\ hist = <<"clamp", "clamp">>
    /\ heap[ds] = before
    /\ \E i, j \in DOMAIN before : before[i] = Num(0) /\ before[j] = Num(7)

\* C9 as stated: after a bucketing under any policy, the input raster holds the
\* values it held before.
C9_InputUntouched ==
    hist # <<>> => heap[inRef] = before

\* C9 amended: the non-positive mask and the identity leave the input raster as
\* it was, the mask returning a new grid; the clamp writes into the input raster
\* itself, which afterwards holds the clamped values and is the grid returned.
C9_InPlaceClampOnly ==
    hist # <<>> =>
        /\ Last(hist) \in {"mask", "identity"} => heap[inRef] = before
        /\ Last(hist) = "mask" => ds # inRef
        /\ Last(hist) = "clamp" =>
             /\ ds = inRef
             /\ \A i \in DOMAIN before : heap[inRef][i] = ClampRule(before[i])

C9_Witness ==
    /\ hist = <<"mask">>
    /\ heap[inRef] = before
    /\ heap[ds] # before

(***************************************************************************)
(* Colormap properties.                                                    *)
(***************************************************************************)
BoundsAscending(b) == \A i \in 1..(Len(b) - 1) : FLt(b[i], b[i + 1])

\* Inputs the specification calls valid, with no negative bound: at least two
\* pairs, each range with low < high, the ranges ascending without overlap.
WellFormed(p) ==
    /\ Len(p) >= 2
    /\ \A i \in 1..Len(p) : p[i][1][1] < p[i][1][2]
    /\ \A i \in 1..(Len(p) - 1) : p[i][1][2] <= p[i + 1][1][1]
    /\ BoundsAscending(ExtractBounds(p))
    /\ FGe(ExtractBounds(p)[1], Zero)

Degenerate(p) ==
    \/ Len(p) < 2
    \/ \A i, j \in 1..Len(p) : ExtractBounds(p)[i] = ExtractBounds(p)[j]

\* C3 as stated: with N >= 2 control bounds and max # min (a negative minimum
\* included), node i is (b_i - min) / (max - min), lies in [0, 1], is 0 for the
\* smallest bound and 1 for the largest, and the nodes do not decrease when the
\* bounds ascend.
C3_NodesNormalized ==
    (cmap = "built" /\ Len(pairs) >= 2
        /\ NodesMin(ExtractBounds(pairs)) # NodesMax(ExtractBounds(pairs))) =>
        LET b  == ExtractBounds(pairs)
            lo == NodesMin(b)
            hi == NodesMax(b)
        IN  /\ \A i \in 1..Len(b) :
                 /\ nodes[i] = FDiv(FSub(b[i], lo), FSub(hi, lo))
                 /\ FGe(nodes[i], Zero) /\ FLe(nodes[i], One)
                 /\ b[i] = lo => nodes[i] = Zero
                 /\ b[i] = hi => nodes[i] = One
            /\ BoundsAscending(b) =>
                 \A i \in 1..(Len(b) - 1) : FLe(nodes[i], nodes[i + 1])

\* The pair list p with the lower (upper) bound of pair i replaced by v.
WithLow(p, i, v)  == [p EXCEPT ![i] = << <<v, p[i][1][2]>>, p[i][2] >>]
WithHigh(p, i, v) == [p EXCEPT ![i] = << <<p[i][1][1], v>>, p[i][2] >>]

\* C4 as stated: the control bound of a pair is the lower bound of its range,
\* so the nodes are the normalized lower bounds, and changing an upper bound
\* has no effect on the nodes.
C4_LowerBoundsDecide ==
    (cmap = "built" /\ WellFormed(pairs)) =>
        /\ \A i \in 1..Len(pairs) : \A v \in BoundVals :
             WellFormed(WithHigh(pairs, i, v)) => NodesOf(WithHigh(pairs, i, v)) = nodes
        /\ LET low == [i \in 1..Len(pairs) |-> Num(pairs[i][1][1])]
           IN  \A i \in 1..Len(pairs) :
                   nodes[i] = FDiv(FSub(low[i], low[1]),
                                   FSub(low[Len(pairs)], low[1]))

\* C4 amended: the control bound of a pair is the upper bound of its range (one
\* per pair, in input order); the lower bounds have no effect on the nodes:
\* pair lists that differ only in a lower bound produce the same nodes.
C4_UpperBoundsDecide ==
    cmap = "built" =>
        /\ \A i \in 1..Len(pairs) : \A v \in BoundVals :
             NodesOf(WithLow(pairs, i, v)) = nodes
        /\ LET up == [i \in 1..Len(pairs) |-> Num(pairs[i][1][2])]
           IN  (Len(pairs) >= 2 /\ BoundsAscending(up) /\ FGe(up[1], Zero)) =>
                   \A i \in 1..Len(pairs) :
                       nodes[i] = FDiv(FSub(up[i], up[1]),
                                       FSub(up[Len(pairs)], up[1]))

C4_Witness ==
    /\ cmap = "built"
    /\ Len(pairs) = 3
    /\ WellFormed(pairs)
    /\ pairs[2][1] = <<1, 2>>
    /\ nodes = <<Zero, Rat(1, 3), One>>

\* C5 as stated: with fewer than two pairs, or with all control bounds equal,
\* the colormap cell fails and produces no colormap; no division by zero is
\* made and no nan or infinite node is handed on.
C5_DegenerateRejected ==
    (pc > 4 /\ Degenerate(pairs)) =>
        /\ cmap # "built"
        /\ \A i \in 1..Len(nodes) : IsNum(nodes[i])

Lerp(a, b, t) == [c \in Channels |-> FAdd(a[c], FMul(t, FSub(b[c], a[c])))]

\* C6 as stated: a raster value is looked up after the normalization applied to
\* the control bounds, so a value equal to control bound i gets the colour of
\* pair i and a value between two adjacent bounds gets the linear interpolation
\* of their colours.
C6_LookupNormalized ==
    (query.status # "none" /\ WellFormed(pairs) /\ IsNum(query.x)) =>
        LET b == ExtractBounds(pairs)
        IN  /\ query.status = "ok"
            /\ \A i \in 1..Len(b) : FEq(query.x, b[i]) => query.rgba = colors[i]
            /\ \A i \in 1..(Len(b) - 1) :
                 (FLt(b[i], query.x) /\ FLt(query.x, b[i + 1])) =>
                     query.rgba = Lerp(colors[i], colors[i + 1],
                                       FDiv(FSub(query.x, b[i]), FSub(b[i + 1], b[i])))

\* What C7 promises of one lookup: it succeeds, a value below the first control
\* point gets the first colour, a value above the last gets the last colour, and
\* every channel lies within the range of that channel over the control colours.
LookupClamped ==
    /\ query.status = "ok"
    /\ FLt(query.x, nodes[1]) => query.rgba = colors[1]
    /\ FGt(query.x, nodes[Len(nodes)]) => query.rgba = colors[Len(colors)]
    /\ \A c \in Channels :
         /\ \E j \in 1..Len(colors) : FLe(colors[j][c], query.rgba[c])
         /\ \E j \in 1..Len(colors) : FGe(colors[j][c], query.rgba[c])

\* C7 as stated: looking any number (infinite ones included) up in the built
\* colormap never fails and never extrapolates.
C7_LookupNeverFails ==
    (query.status # "none" /\ ~IsNaN(query.x)) => LookupClamped

\* The lookup is clamped as C7 says whenever the pairs are well formed.
LookupClampedIfWellFormed ==
    (query.status # "none" /\ ~IsNaN(query.x) /\ WellFormed(pairs)) => LookupClamped

(***************************************************************************)
(* The run of the whole notebook.                                          *)
(***************************************************************************)
SectionRule(c, v) ==
    CASE c = "3dep-lidar-returns"   -> ClampRule(v)
      [] c = "3dep-lidar-intensity" -> v
      [] c = "3dep-lidar-hag"       -> CmapCall(nodes, colors, v).rgba
      [] OTHER                      -> MaskRule(v)

\* C10: in a top-to-bottom run, what a section displays is derived only from the
\* raster fetched for that section's own collection; ds names that section's
\* array, never one a previous section clamped or masked.
C10_OwnAssetShown ==
    shown.coll # "none" =>
        /\ asset.coll = shown.coll
        /\ DOMAIN shown.values = DOMAIN asset.values
        /\ \A i \in DOMAIN shown.values :
             shown.values[i] = SectionRule(shown.coll, asset.values[i])
        /\ shown.coll # "3dep-lidar-hag" => heap[ds] = shown.values

C10_Witness ==
    /\ pc = 13
    /\ shown.coll = "3dep-lidar-pointsourceid"
    /\ \E i \in DOMAIN shown.values :
         asset.values[i] = Num(50) /\ shown.values[i] = Num(50)

====
